---- MODULE Spec2Model ----
(***************************************************************************)
(* Model of the Swiss RAG demo (src/app.py): the chunker, the document     *)
(* ingestor, the embedding engine, the retrieval index and the query       *)
(* orchestrator.                                                           *)
(*                                                                         *)
(* Texts are sequences of one-character strings; " " is the only           *)
(* whitespace character of the model's alphabet.                           *)
(***************************************************************************)
EXTENDS Integers, Sequences, FiniteSets, TLC

VARIABLES
    CHUNK_SIZE_CHARS,  \* window size W (src/app.py:51)
    OVERLAP_CHARS,     \* overlap O (src/app.py:52)
    pc,                \* position of the single thread of control
    ct,                \* frame of DocumentProcessor.chunk_text
    corpus,            \* the PDF contents a document URL may serve
    environ,           \* os.environ: the value of each credential variable
    web,               \* what the network served, one answer per source so far
    pd,                \* frame of DocumentProcessor.process_documents
    chunks,            \* DocumentProcessor.chunks
    eb,                \* frame of EmbeddingEngine.embed_chunks_batch
    rag,               \* the SwissRAG object: retriever, doc_stats
    last               \* the last finished call of query or retrieve

config == <<CHUNK_SIZE_CHARS, OVERLAP_CHARS, corpus, environ>>
ingest == <<web, pd, chunks>>
serving == <<rag, last>>
vars == <<CHUNK_SIZE_CHARS, OVERLAP_CHARS, pc, ct, corpus, environ, web, pd,
          chunks, eb, rag, last>>

----------------------------------------------------------------------------
(* Bounds of the model *)

MaxLen == 4       \* longest text handed to chunk_text
MaxW == 4         \* largest window size
MaxO == 5         \* largest overlap (reaches O = W and O > W)
MaxIters == 6     \* loop iterations of chunk_text that are explored

Alphabet == {"a", "b", " "}

RECURSIVE TextsOfLen(_)
TextsOfLen(n) ==
    IF n = 0 THEN {<<>>}
    ELSE {Append(t, c) : t \in TextsOfLen(n - 1), c \in Alphabet}

Texts == UNION {TextsOfLen(n) : n \in 0..MaxLen}

----------------------------------------------------------------------------
(* Python string primitives *)

IsSpace(c) == c = " "

Min(x, y) == IF x < y THEN x ELSE y
Max(x, y) == IF x > y THEN x ELSE y

\* s[from:to] of Python, indices 0-based, negative indices counted from the end
ClampIndex(i, n) == IF i < 0 THEN Max(i + n, 0) ELSE Min(i, n)

PySlice(s, from, to) ==
    LET lo == ClampIndex(from, Len(s))
        hi == ClampIndex(to, Len(s))
    IN  IF lo >= hi THEN <<>> ELSE SubSeq(s, lo + 1, hi)

RECURSIVE LStrip(_)
LStrip(s) ==
    IF s = <<>> THEN <<>>
    ELSE IF IsSpace(Head(s)) THEN LStrip(Tail(s)) ELSE s

RECURSIVE RStrip(_)
RStrip(s) ==
    IF s = <<>> THEN <<>>
    ELSE IF IsSpace(s[Len(s)]) THEN RStrip(SubSeq(s, 1, Len(s) - 1)) ELSE s

\* str.strip()
Strip(s) == RStrip(LStrip(s))

----------------------------------------------------------------------------
(* Chunk records *)

\* the two credentials read from the environment, and what os.environ.get
\* may give for each: None (unset), the empty string, a token
EnvNames == {"HF_TOKEN", "PUBLICAI_API_KEY"}
EnvValues == {"None", "", "token"}
NoEnviron == [name \in EnvNames |-> "None"]

\* `not value` of Python, for None and for strings
Falsy(value) == value \in {"None", ""}

NoFrame == [active |-> FALSE]

\* self.retriever = None
NoRetriever == [built |-> FALSE, chunks |-> <<>>, embeddings |-> <<>>]

\* no SwissRAG object has been constructed
NoRag == [constructed |-> FALSE, initialize |-> "no",
          retriever |-> NoRetriever, doc_stats |-> [k \in {} |-> 0]]

\* neither query nor retrieve has been called
NoCall == [op |-> "none", question |-> <<>>, top_k |-> 0, ready |-> FALSE,
           answer |-> "", retrieved |-> <<>>, query_embedding |-> <<>>,
           invoked |-> {}]

NoEmbedding == <<>>   \* embedding = None

Chunk(text, source_label, page_number, chunk_index) ==
    [text |-> text, source_label |-> source_label,
     page_number |-> page_number, chunk_index |-> chunk_index,
     embedding |-> NoEmbedding]

----------------------------------------------------------------------------
(* DocumentProcessor.chunk_text, one loop iteration per step *)

\* the frame on entry: chunks = [], start = 0, chunk_index = start_chunk_index;
\* `windows` records, for every window taken, its start and whether it was
\* emitted
ChunkTextFrame(text, page_num, label, start_chunk_index, caller) ==
    [text |-> text, page_num |-> page_num, label |-> label,
     chunks |-> <<>>, start |-> 0, chunk_index |-> start_chunk_index,
     iters |-> 0, windows |-> <<>>, caller |-> caller]

\* a slip: the window is stored as cut, without .strip()
ChunkIterUnstripped(f) ==
    LET end == f.start + CHUNK_SIZE_CHARS
        chunk_text == PySlice(f.text, f.start, end)
        emit == Strip(chunk_text) # <<>>
    IN  [f EXCEPT
            !.chunks = IF emit
                       THEN Append(@, Chunk(chunk_text, f.label,
                                            f.page_num, f.chunk_index))
                       ELSE @,
            !.chunk_index = IF emit THEN @ + 1 ELSE @,
            !.start = @ + (CHUNK_SIZE_CHARS - OVERLAP_CHARS),
            !.iters = @ + 1,
            !.windows = Append(@, [start |-> f.start, emitted |-> emit])]

\* a slip: the stride is the whole window, the overlap is forgotten
ChunkIterNoOverlap(f) ==
    LET end == f.start + CHUNK_SIZE_CHARS
        chunk_text == PySlice(f.text, f.start, end)
        emit == Strip(chunk_text) # <<>>
    IN  [f EXCEPT
            !.chunks = IF emit
                       THEN Append(@, Chunk(Strip(chunk_text), f.label,
                                            f.page_num, f.chunk_index))
                       ELSE @,
            !.chunk_index = IF emit THEN @ + 1 ELSE @,
            !.start = @ + CHUNK_SIZE_CHARS,
            !.iters = @ + 1,
            !.windows = Append(@, [start |-> f.start, emitted |-> emit])]

\* the body of `while start < len(text)`: one window, then the stride
ChunkIter(f) ==
    LET end == f.start + CHUNK_SIZE_CHARS
        chunk_text == PySlice(f.text, f.start, end)
        emit == Strip(chunk_text) # <<>>
    IN  [f EXCEPT
            !.chunks = IF emit
                       THEN Append(@, Chunk(Strip(chunk_text), f.label,
                                            f.page_num, f.chunk_index))
                       ELSE @,
            !.chunk_index = IF emit THEN @ + 1 ELSE @,
            !.start = @ + (CHUNK_SIZE_CHARS - OVERLAP_CHARS),
            !.iters = @ + 1,
            !.windows = Append(@, [start |-> f.start, emitted |-> emit])]

\* one iteration of the loop, up to and including `if start >= len(text): break`
ChunkLoop ==
    /\ pc = "chunk_text"
    /\ ct.start < Len(ct.text)
    /\ ct.iters < MaxIters
    /\ ct' = ChunkIter(ct)
    /\ pc' = IF ct'.start >= Len(ct'.text) THEN "chunk_break" ELSE "chunk_text"
    /\ UNCHANGED <<config, ingest, eb, serving>>

\* `return chunks` of a direct call
ChunkReturn ==
    /\ \/ pc = "chunk_break"
       \/ pc = "chunk_text" /\ ~(ct.start < Len(ct.text))
    /\ ct.caller = "none"
    /\ pc' = "chunk_returned"
    /\ UNCHANGED <<config, ct, ingest, eb, serving>>

----------------------------------------------------------------------------
(* The chunker alone: chunk_text applied to every text under every         *)
(* configuration of the two chunking parameters                            *)

InitChunk ==
    /\ CHUNK_SIZE_CHARS \in 1..MaxW
    /\ OVERLAP_CHARS \in 0..MaxO
    /\ pc = "chunk_text"
    /\ \E text \in Texts, start_chunk_index \in 0..1 :
          ct = ChunkTextFrame(text, 1, "D1", start_chunk_index, "none")
    /\ corpus = {}
    /\ environ = NoEnviron
    /\ web = <<>>
    /\ pd = NoFrame
    /\ chunks = <<>>
    /\ eb = NoFrame
    /\ rag = NoRag
    /\ last = NoCall

NextChunk == ChunkLoop \/ ChunkReturn

SpecChunk == InitChunk /\ [][NextChunk]_vars

----------------------------------------------------------------------------
(* DocumentProcessor.chunk_text as a function, for the callers that run it *)
(* under a configuration with O < W; the loop is the one of ChunkLoop      *)

RECURSIVE RunChunkLoop(_)
RunChunkLoop(f) ==
    IF f.start < Len(f.text)
    THEN LET g == ChunkIter(f)
         IN  IF g.start >= Len(g.text) THEN g.chunks ELSE RunChunkLoop(g)
    ELSE f.chunks

chunk_text(text, page_num, label, start_chunk_index) ==
    RunChunkLoop(ChunkTextFrame(text, page_num, label, start_chunk_index, "none"))

----------------------------------------------------------------------------
(* The network and the PDF library *)

NumDocs == 3      \* len(DOCUMENTS)

\* a list of n sources with pairwise different labels, as DOCUMENTS is
Sources(n) == [d \in 1..n |-> [url |-> d, label |-> d]]

DOCUMENTS == Sources(NumDocs)

NoPdf == [pages |-> <<>>, raises |-> FALSE, read |-> 0]

\* what requests.get can do for a URL: raise (or a bad status), answer with
\* an empty body, or answer with a PDF.  A PDF is its pages' texts; fitz
\* either reads all of them or raises after `read` of them (read = 0: on
\* open; read = number of pages: on close).
WebAnswers ==
    {[status |-> "error", empty |-> TRUE, pdf |-> NoPdf],
     [status |-> "ok", empty |-> TRUE, pdf |-> NoPdf]}
    \cup {[status |-> "ok", empty |-> FALSE,
           pdf |-> [pages |-> p, raises |-> FALSE, read |-> Len(p)]] :
          p \in corpus}
    \cup UNION {{[status |-> "ok", empty |-> FALSE,
                  pdf |-> [pages |-> p, raises |-> TRUE, read |-> r]] :
                 r \in 0..Len(p)} : p \in corpus}

\* download_pdf: None on any exception, else response.content
download_pdf(answer) ==
    IF answer.status = "error"
    THEN [none |-> TRUE, empty |-> TRUE, pdf |-> NoPdf]
    ELSE [none |-> FALSE, empty |-> answer.empty, pdf |-> answer.pdf]

\* `not pdf_bytes`
NotBytes(pdf_bytes) == pdf_bytes.none \/ pdf_bytes.empty

\* the loop of parse_pdf over the first n pages: (text, page_num) of the
\* pages whose stripped text is not empty, page numbers starting at 1
RECURSIVE ReadPages(_, _)
ReadPages(pages, n) ==
    IF n = 0 THEN <<>>
    ELSE LET before == ReadPages(pages, n - 1)
         IN  IF Strip(pages[n]) # <<>>
             THEN Append(before, <<pages[n], n>>)
             ELSE before

\* parse_pdf: `pages` is filled inside the try and returned after the
\* except, so an exception leaves the pages read before it in the result
parse_pdf(pdf_bytes) == ReadPages(pdf_bytes.pdf.pages, pdf_bytes.pdf.read)

----------------------------------------------------------------------------
(* DocumentProcessor.process_documents, one document per step *)

\* stats[label] = n
DictSet(dict, key, value) ==
    [k \in DOMAIN dict \cup {key} |-> IF k = key THEN value ELSE dict[k]]

EmptyDict == [k \in {} |-> 0]

\* a slip: every page starts counting at 0 again
RECURSIVE ChunkPagesRestarting(_, _, _, _, _)
ChunkPagesRestarting(pages, i, label, doc_chunks, chunk_index) ==
    IF i > Len(pages) THEN doc_chunks
    ELSE LET page_chunks == chunk_text(pages[i][1], pages[i][2], label, 0)
         IN  ChunkPagesRestarting(pages, i + 1, label, doc_chunks \o page_chunks,
                                  chunk_index + Len(page_chunks))

\* the loop `for page_text, page_num in pages` from page i on
RECURSIVE ChunkPages(_, _, _, _, _)
ChunkPages(pages, i, label, doc_chunks, chunk_index) ==
    IF i > Len(pages) THEN doc_chunks
    ELSE LET page_chunks == chunk_text(pages[i][1], pages[i][2], label, chunk_index)
         IN  ChunkPages(pages, i + 1, label, doc_chunks \o page_chunks,
                        chunk_index + Len(page_chunks))

ProcessDocumentsFrame(documents, caller) ==
    [active |-> TRUE, documents |-> documents, d |-> 1, stats |-> EmptyDict,
     caller |-> caller]

\* one iteration of `for doc_config in documents`
ProcessDocument ==
    /\ pc = "process_documents"
    /\ pd.d <= Len(pd.documents)
    /\ \E answer \in WebAnswers :
          LET label == pd.documents[pd.d].label
              pdf_bytes == download_pdf(answer)
              pages == parse_pdf(pdf_bytes)
              doc_chunks == ChunkPages(pages, 1, label, <<>>, 0)
          IN  /\ web' = Append(web, answer)
              /\ IF NotBytes(pdf_bytes) \/ pages = <<>>
                 THEN /\ pd' = [pd EXCEPT !.stats = DictSet(@, label, 0),
                                          !.d = @ + 1]
                      /\ chunks' = chunks
                 ELSE /\ chunks' = chunks \o doc_chunks
                      /\ pd' = [pd EXCEPT
                                   !.stats = DictSet(@, label, Len(doc_chunks)),
                                   !.d = @ + 1]
    /\ UNCHANGED <<config, pc, ct, eb, serving>>

\* `return stats` of a direct call
ProcessReturn ==
    /\ pc = "process_documents"
    /\ pd.d > Len(pd.documents)
    /\ pd.caller = "none"
    /\ pc' = "processed"
    /\ UNCHANGED <<config, ct, ingest, eb, serving>>

----------------------------------------------------------------------------
(* The ingestor alone: process_documents over a list of sources, whatever   *)
(* the network serves, under the configurations with O < W                 *)

MaxDocs == 2      \* sources handed to process_documents

MaxIngestW == 3   \* largest window size during ingestion

a == "a"
b == "b"
sp == " "

\* page texts: blank; one window; several windows, one of them blank
BlankPage == <<sp, sp>>
ShortPage == <<a, b>>
LongPage == <<sp, a, sp, sp, sp, b>>

\* the PDFs a source may be: no page, one page, two or three pages, with
\* blank pages in front of, between and behind the others
IngestCorpus ==
    {<<>>,
     <<BlankPage>>,
     <<ShortPage>>,
     <<LongPage>>,
     <<ShortPage, BlankPage>>,
     <<LongPage, ShortPage>>,
     <<BlankPage, ShortPage, LongPage>>}

InitIngest ==
    /\ CHUNK_SIZE_CHARS \in 2..MaxIngestW
    /\ OVERLAP_CHARS \in 0..1
    /\ corpus = IngestCorpus
    /\ environ = NoEnviron
    /\ pc = "process_documents"
    /\ ct = NoFrame
    /\ web = <<>>
    /\ pd = ProcessDocumentsFrame(Sources(MaxDocs), "none")
    /\ chunks = <<>>
    /\ eb = NoFrame
    /\ rag = NoRag
    /\ last = NoCall

NextIngest == ProcessDocument \/ ProcessReturn

SpecIngest == InitIngest /\ [][NextIngest]_vars

----------------------------------------------------------------------------
(* EmbeddingEngine.embed_text.  Vectors have two integer components; a     *)
(* normalized vector is written in units of 1/Unit, so its components      *)
(* satisfy x*x + y*y = Unit*Unit.                                          *)

Unit == 5

Dot(u, v) == u[1] * v[1] + u[2] * v[2]

\* np.linalg.norm, exact on the vectors of the model
Norm(v) == CHOOSE n \in 0..(Unit * Unit) : n * n = Dot(v, v)

\* what client.feature_extraction can do: raise, or return a list; the list
\* is empty (malformed), flat (one vector) or nested (one vector per token).
\* The vectors a provider returns for a text are not zero.
ProviderResults ==
    {[raised |-> TRUE, nested |-> FALSE, rows |-> <<>>],
     [raised |-> FALSE, nested |-> FALSE, rows |-> <<>>],
     [raised |-> FALSE, nested |-> FALSE, rows |-> <<<<10, 0>>>>],
     [raised |-> FALSE, nested |-> FALSE, rows |-> <<<<3, 4>>>>],
     [raised |-> FALSE, nested |-> FALSE, rows |-> <<<<0, 10>>>>],
     [raised |-> FALSE, nested |-> TRUE, rows |-> <<<<6, 8>>, <<0, 0>>>>]}

RECURSIVE SumRows(_, _)
SumRows(rows, n) ==
    IF n = 0 THEN <<0, 0>>
    ELSE LET s == SumRows(rows, n - 1)
         IN  <<s[1] + rows[n][1], s[2] + rows[n][2]>>

\* np.mean(result, axis=0)
MeanRows(rows) ==
    LET s == SumRows(rows, Len(rows))
    IN  <<s[1] \div Len(rows), s[2] \div Len(rows)>>

\* embedding / (np.linalg.norm(embedding) + 1e-8)
Normalize(v) == <<(v[1] * Unit) \div Norm(v), (v[2] * Unit) \div Norm(v)>>

\* embed_text: None on any exception (result[0] of an empty list raises)
embed_text(result) ==
    IF result.raised \/ result.rows = <<>> THEN NoEmbedding
    ELSE IF result.nested THEN Normalize(MeanRows(result.rows))
    ELSE Normalize(result.rows[1])

----------------------------------------------------------------------------
(* EmbeddingEngine.embed_chunks_batch, one chunk per step *)

DefaultBatchSize == 10

\* a slip: the slice drops the last chunk of every batch
BatchPositionsShort(i, batch_size, total) ==
    {p \in 1..total : i < p /\ p <= i + batch_size - 1}

\* the positions (1-based) of batch = chunks[i:i+batch_size]
BatchPositions(i, batch_size, total) ==
    {p \in 1..total : i < p /\ p <= i + batch_size}

EmbedFrame(batch_size, caller) ==
    [active |-> TRUE, batch_size |-> batch_size, total |-> Len(chunks),
     i |-> 0, j |-> 0, success_count |-> 0, sleeps |-> 0, calls |-> <<>>,
     caller |-> caller]

\* one iteration of `for chunk in batch`
EmbedChunk ==
    /\ pc = "embed_chunks_batch"
    /\ eb.i < eb.total
    /\ eb.j < Cardinality(BatchPositions(eb.i, eb.batch_size, eb.total))
    /\ \E result \in ProviderResults :
          LET p == eb.i + eb.j + 1
              embedding == embed_text(result)
          IN  /\ chunks' = IF embedding # NoEmbedding
                           THEN [chunks EXCEPT ![p].embedding = embedding]
                           ELSE chunks
              /\ eb' = [eb EXCEPT
                           !.success_count =
                               IF embedding # NoEmbedding THEN @ + 1 ELSE @,
                           !.j = @ + 1,
                           !.calls = Append(@, [chunk |-> p,
                                                returned |-> embedding])]
    /\ UNCHANGED <<config, pc, ct, web, pd, serving>>

\* the end of one batch: the rate limiting, then the next i of
\* range(0, total, batch_size)
EmbedBatchEnd ==
    /\ pc = "embed_chunks_batch"
    /\ eb.i < eb.total
    /\ eb.j = Cardinality(BatchPositions(eb.i, eb.batch_size, eb.total))
    /\ eb' = [eb EXCEPT
                 !.sleeps = IF eb.i + eb.batch_size < eb.total THEN @ + 1 ELSE @,
                 !.i = @ + eb.batch_size,
                 !.j = 0]
    /\ UNCHANGED <<config, pc, ct, ingest, serving>>

\* `return success_count` of a direct call
EmbedReturn ==
    /\ pc = "embed_chunks_batch"
    /\ eb.i >= eb.total
    /\ eb.caller = "none"
    /\ pc' = "embedded"
    /\ UNCHANGED <<config, ct, ingest, eb, serving>>

----------------------------------------------------------------------------
(* The embedding engine alone: embed_chunks_batch over freshly ingested    *)
(* chunks, for every batch size and whatever the provider answers          *)

MaxChunks == 4    \* chunks handed to embed_chunks_batch
MaxBatch == 3     \* largest batch size

InitEmbed ==
    /\ CHUNK_SIZE_CHARS = 4
    /\ OVERLAP_CHARS = 1
    /\ corpus = {}
    /\ environ = NoEnviron
    /\ pc = "embed_chunks_batch"
    /\ ct = NoFrame
    /\ web = <<>>
    /\ pd = NoFrame
    /\ \E n \in 0..MaxChunks :
          chunks = [p \in 1..n |-> Chunk(<<a, b>>, 1, 1, p - 1)]
    /\ \E batch_size \in 1..MaxBatch :
          eb = EmbedFrame(batch_size, "none")
    /\ rag = NoRag
    /\ last = NoCall

NextEmbed == EmbedChunk \/ EmbedBatchEnd \/ EmbedReturn

SpecEmbed == InitEmbed /\ [][NextEmbed]_vars

----------------------------------------------------------------------------
(* RAGRetriever.  The index refers to the chunks by their position in      *)
(* DocumentProcessor.chunks (the list holds the same objects) and keeps    *)
(* its own matrix of their vectors.                                        *)

TOP_K == 4

\* [c for c in chunks if c.embedding is not None], over the first n chunks
RECURSIVE EmbeddedPositions(_, _)
EmbeddedPositions(cs, n) ==
    IF n = 0 THEN <<>>
    ELSE IF cs[n].embedding # NoEmbedding
         THEN Append(EmbeddedPositions(cs, n - 1), n)
         ELSE EmbeddedPositions(cs, n - 1)

\* a slip: the filter is left out
RAGRetrieverUnfiltered(cs) ==
    [built |-> TRUE,
     chunks |-> [p \in 1..Len(cs) |-> p],
     embeddings |-> [p \in 1..Len(cs) |-> cs[p].embedding]]

\* RAGRetriever.__init__
RAGRetriever(cs) ==
    LET kept == EmbeddedPositions(cs, Len(cs))
    IN  [built |-> TRUE,
         chunks |-> kept,
         embeddings |-> [k \in 1..Len(kept) |-> cs[kept[k]].embedding]]

\* scipy's cosine distance, in units of 1/(Unit*Unit)
cosine(u, v) == Unit * Unit - (Dot(u, v) * Unit * Unit) \div (Norm(u) * Norm(v))

\* a slip: a later item goes in front of the items with the same score
RECURSIVE InsertDescUnstable(_, _)
InsertDescUnstable(sorted, x) ==
    IF sorted = <<>> THEN <<x>>
    ELSE IF Head(sorted)[2] > x[2]
         THEN <<Head(sorted)>> \o InsertDescUnstable(Tail(sorted), x)
         ELSE <<x>> \o sorted

\* the place of x in a list sorted by descending score: behind every item
\* whose score is at least its own
RECURSIVE InsertDesc(_, _)
InsertDesc(sorted, x) ==
    IF sorted = <<>> THEN <<x>>
    ELSE IF Head(sorted)[2] >= x[2]
         THEN <<Head(sorted)>> \o InsertDesc(Tail(sorted), x)
         ELSE <<x>> \o sorted

\* similarities.sort(key=lambda x: x[1], reverse=True): the stable sort of
\* Python, over the first n items
RECURSIVE SortDesc(_, _)
SortDesc(items, n) ==
    IF n = 0 THEN <<>>
    ELSE InsertDesc(SortDesc(items, n - 1), items[n])

\* a slip: the slice [:top_k] is left out
CutAll(items, top_k) == items

\* similarities[:top_k]
Cut(items, top_k) == PySlice(items, 0, top_k)

\* retrieve: the result, the query vector and the collaborators invoked
retrieve(retriever, result, top_k) ==
    IF Len(retriever.chunks) = 0
    THEN [retrieved |-> <<>>, query_embedding |-> NoEmbedding, invoked |-> {}]
    ELSE LET query_embedding == embed_text(result)
             similarities ==
                 [i \in 1..Len(retriever.embeddings) |->
                     <<retriever.chunks[i],
                       Unit * Unit - cosine(query_embedding, retriever.embeddings[i])>>]
         IN  IF query_embedding = NoEmbedding
             THEN [retrieved |-> <<>>, query_embedding |-> NoEmbedding,
                   invoked |-> {"embed_text"}]
             ELSE [retrieved |-> Cut(SortDesc(similarities, Len(similarities)), top_k),
                   query_embedding |-> query_embedding,
                   invoked |-> {"embed_text"}]

----------------------------------------------------------------------------
(* SwissRAG *)

NotInitialized == "Error: System not initialized"
PleaseEnter == "Please enter a question."
NoContext == "Error: Could not retrieve relevant context."
LlmAnswer == "response.choices[0].message.content"
LlmFailed == "Error: LLM call failed"

\* __init__: both credentials are required; a ValueError leaves no object
Construct ==
    /\ pc = "start"
    /\ LET hf_token == environ["HF_TOKEN"]
           publicai_token == environ["PUBLICAI_API_KEY"]
       IN  IF Falsy(hf_token) \/ Falsy(publicai_token)
           THEN /\ rag' = rag
                /\ pc' = "halted"
           ELSE /\ rag' = [NoRag EXCEPT !.constructed = TRUE]
                /\ pc' = "idle"
    /\ UNCHANGED <<config, ct, ingest, eb, last>>

\* initialize, up to the call of process_documents(DOCUMENTS)
Initialize ==
    /\ pc = "idle"
    /\ rag.initialize = "no"
    /\ rag' = [rag EXCEPT !.initialize = "running"]
    /\ pd' = ProcessDocumentsFrame(DOCUMENTS, "initialize")
    /\ pc' = "process_documents"
    /\ UNCHANGED <<config, ct, web, chunks, eb, last>>

\* initialize, from the return of process_documents to the call of
\* embed_chunks_batch; no chunk at all raises ValueError.  The responses
\* were local to process_documents.
InitializeIngested ==
    /\ pc = "process_documents"
    /\ pd.d > Len(pd.documents)
    /\ pd.caller = "initialize"
    /\ web' = <<>>
    /\ IF Len(chunks) = 0
       THEN /\ rag' = [rag EXCEPT !.doc_stats = pd.stats,
                                  !.initialize = "failed"]
            /\ pc' = "idle"
            /\ eb' = eb
       ELSE /\ rag' = [rag EXCEPT !.doc_stats = pd.stats]
            /\ eb' = EmbedFrame(DefaultBatchSize, "initialize")
            /\ pc' = "embed_chunks_batch"
    /\ UNCHANGED <<config, ct, pd, chunks, last>>

\* initialize, from the return of embed_chunks_batch to its own return
InitializeBuildIndex ==
    /\ pc = "embed_chunks_batch"
    /\ eb.i >= eb.total
    /\ eb.caller = "initialize"
    /\ rag' = [rag EXCEPT !.retriever = RAGRetriever(chunks),
                          !.initialize = "ok"]
    /\ pc' = "idle"
    /\ UNCHANGED <<config, ct, ingest, eb, last>>

\* a slip: the blank question is rejected only after the retrieval
query_blank_late(question, result, llm_raises) ==
    IF ~rag.retriever.built
    THEN [answer |-> NotInitialized, retrieved |-> <<>>,
          query_embedding |-> NoEmbedding, invoked |-> {}]
    ELSE LET r == retrieve(rag.retriever, result, TOP_K)
         IN  IF Strip(question) = <<>>
             THEN [answer |-> PleaseEnter, retrieved |-> <<>>,
                   query_embedding |-> r.query_embedding,
                   invoked |-> {"retrieve"} \cup r.invoked]
             ELSE IF r.retrieved = <<>>
             THEN [answer |-> NoContext, retrieved |-> <<>>,
                   query_embedding |-> r.query_embedding,
                   invoked |-> {"retrieve"} \cup r.invoked]
             ELSE [answer |-> IF llm_raises THEN LlmFailed ELSE LlmAnswer,
                   retrieved |-> r.retrieved,
                   query_embedding |-> r.query_embedding,
                   invoked |-> {"retrieve", "llm"} \cup r.invoked]

\* a slip: `if not retrieved` is left out
query_unchecked(question, result, llm_raises) ==
    IF ~rag.retriever.built
    THEN [answer |-> NotInitialized, retrieved |-> <<>>,
          query_embedding |-> NoEmbedding, invoked |-> {}]
    ELSE IF Strip(question) = <<>>
    THEN [answer |-> PleaseEnter, retrieved |-> <<>>,
          query_embedding |-> NoEmbedding, invoked |-> {}]
    ELSE LET r == retrieve(rag.retriever, result, TOP_K)
         IN  [answer |-> IF llm_raises THEN LlmFailed ELSE LlmAnswer,
              retrieved |-> r.retrieved,
              query_embedding |-> r.query_embedding,
              invoked |-> {"retrieve", "llm"} \cup r.invoked]

\* a slip: `if not self.retriever` is left out
query_ungated(question, result, llm_raises) ==
    IF Strip(question) = <<>>
    THEN [answer |-> PleaseEnter, retrieved |-> <<>>,
          query_embedding |-> NoEmbedding, invoked |-> {}]
    ELSE LET r == retrieve(rag.retriever, result, TOP_K)
         IN  IF r.retrieved = <<>>
             THEN [answer |-> NoContext, retrieved |-> <<>>,
                   query_embedding |-> r.query_embedding,
                   invoked |-> {"retrieve"} \cup r.invoked]
             ELSE [answer |-> IF llm_raises THEN LlmFailed ELSE LlmAnswer,
                   retrieved |-> r.retrieved,
                   query_embedding |-> r.query_embedding,
                   invoked |-> {"retrieve", "llm"} \cup r.invoked]

\* query: the answer, the retrieved chunks and the collaborators invoked
query(question, result, llm_raises) ==
    IF ~rag.retriever.built
    THEN [answer |-> NotInitialized, retrieved |-> <<>>,
          query_embedding |-> NoEmbedding, invoked |-> {}]
    ELSE IF Strip(question) = <<>>
    THEN [answer |-> PleaseEnter, retrieved |-> <<>>,
          query_embedding |-> NoEmbedding, invoked |-> {}]
    ELSE LET r == retrieve(rag.retriever, result, TOP_K)
         IN  IF r.retrieved = <<>>
             THEN [answer |-> NoContext, retrieved |-> <<>>,
                   query_embedding |-> r.query_embedding,
                   invoked |-> {"retrieve"} \cup r.invoked]
             ELSE [answer |-> IF llm_raises THEN LlmFailed ELSE LlmAnswer,
                   retrieved |-> r.retrieved,
                   query_embedding |-> r.query_embedding,
                   invoked |-> {"retrieve", "llm"} \cup r.invoked]

Questions == {<<>>, <<sp>>, <<a>>}

\* the provider and the language model answer only when they are called
Unasked == [raised |-> TRUE, nested |-> FALSE, rows |-> <<>>]

ProviderAnswers(called) == IF called THEN ProviderResults ELSE {Unasked}

LlmOutcomes(called) == IF called THEN BOOLEAN ELSE {FALSE}

\* a call of SwissRAG.query
Query ==
    /\ pc = "idle"
    /\ rag.constructed
    /\ \E question \in Questions :
       \E result \in ProviderAnswers("embed_text" \in query(question, Unasked, FALSE).invoked) :
       \E llm_raises \in LlmOutcomes("llm" \in query(question, result, FALSE).invoked) :
          LET r == query(question, result, llm_raises)
          IN  last' = [op |-> "query", question |-> question, top_k |-> TOP_K,
                       ready |-> rag.retriever.built,
                       answer |-> r.answer, retrieved |-> r.retrieved,
                       query_embedding |-> r.query_embedding,
                       invoked |-> r.invoked]
    /\ UNCHANGED <<config, pc, ct, ingest, eb, rag>>

MaxTopK == 3      \* largest top_k of a direct call of retrieve

\* a call of RAGRetriever.retrieve
Retrieve ==
    /\ pc = "idle"
    /\ rag.retriever.built
    /\ \E top_k \in 1..MaxTopK :
       \E result \in ProviderAnswers("embed_text" \in retrieve(rag.retriever, Unasked, top_k).invoked) :
          LET r == retrieve(rag.retriever, result, top_k)
          IN  last' = [op |-> "retrieve", question |-> <<a>>, top_k |-> top_k,
                       ready |-> rag.retriever.built,
                       answer |-> "", retrieved |-> r.retrieved,
                       query_embedding |-> r.query_embedding,
                       invoked |-> r.invoked]
    /\ UNCHANGED <<config, pc, ct, ingest, eb, rag>>

----------------------------------------------------------------------------
(* The application: construction, initialize, then queries.  The chunking  *)
(* parameters keep the 4 : 1 ratio of the shipped ones.                    *)

InitialCorpus == {<<<<sp, a, b>>>>}

Init ==
    /\ CHUNK_SIZE_CHARS = 4
    /\ OVERLAP_CHARS = 1
    /\ corpus = InitialCorpus
    /\ environ \in [EnvNames -> EnvValues]
    /\ pc = "start"
    /\ ct = NoFrame
    /\ web = <<>>
    /\ pd = NoFrame
    /\ chunks = <<>>
    /\ eb = NoFrame
    /\ rag = NoRag
    /\ last = NoCall

Next ==
    \/ Construct
    \/ Initialize
    \/ ProcessDocument
    \/ InitializeIngested
    \/ EmbedChunk
    \/ EmbedBatchEnd
    \/ InitializeBuildIndex
    \/ Query
    \/ Retrieve

Spec == Init /\ [][Next]_vars

----------------------------------------------------------------------------
\* C1: every iteration of the loop of chunk_text moves the start position
\* forward, so the loop ends after finitely many steps, for every W and O.
C1_ForwardProgress == [][ct'.iters > ct.iters => ct'.start > ct.start]_vars

----------------------------------------------------------------------------
(* What chunk_text returned, read off the frame after `return chunks` *)

Returned == pc = "chunk_returned"

ChunkTexts(cs) == [i \in 1..Len(cs) |-> cs[i].text]

\* the result the claim expects for a text shorter than the window
OneTrimmedChunk(text, result) ==
    IF Strip(text) = <<>> THEN result = <<>>
    ELSE ChunkTexts(result) = <<Strip(text)>>

\* C2 as stated: every text shorter than W comes back as exactly one
\* chunk, the trimmed text, or as no chunk when it is blank.
C2_ShortTextOneChunk ==
    (Returned /\ Len(ct.text) < CHUNK_SIZE_CHARS)
        => OneTrimmedChunk(ct.text, ct.chunks)

\* C2 amended: every text of length at most W - O (one stride) comes back
\* as exactly one chunk, the trimmed text, or as no chunk when it is blank.
C2_WithinStrideOneChunk ==
    (Returned /\ Len(ct.text) <= CHUNK_SIZE_CHARS - OVERLAP_CHARS)
        => OneTrimmedChunk(ct.text, ct.chunks)

\* a text within one stride whose trimming removed whitespace on both sides
C2_Witness ==
    /\ Returned
    /\ Len(ct.text) <= CHUNK_SIZE_CHARS - OVERLAP_CHARS
    /\ OVERLAP_CHARS > 0
    /\ ct.iters = 1
    /\ Len(ct.text) = 3
    /\ Len(Strip(ct.text)) = 1
    /\ IsSpace(ct.text[1]) /\ IsSpace(ct.text[3])
    /\ Len(ct.chunks) = 1

----------------------------------------------------------------------------
(* Reading the result of process_documents *)

Processed == pc = "processed"

\* the chunks of one source, in their order in the global sequence
ChunksOfSource(label) == SelectSeq(chunks, LAMBDA c : c.source_label = label)

\* C3: after process_documents the chunk_index values of every source, read
\* in the order of the global sequence, are 0, 1, ..., n-1.
C3_IndexPerSource ==
    Processed =>
        \A d \in 1..Len(pd.documents) :
            LET cs == ChunksOfSource(pd.documents[d].label)
            IN  \A i \in 1..Len(cs) : cs[i].chunk_index = i - 1

\* two sources with chunks; the first has two pages that each give chunks and
\* a page whose middle window is whitespace only and was skipped
C3_Witness ==
    /\ Processed
    /\ CHUNK_SIZE_CHARS = 2 /\ OVERLAP_CHARS = 0
    /\ web[1].pdf.pages = <<LongPage, ShortPage>>
    /\ web[1].pdf.read = 2
    /\ Len(ChunksOfSource(1)) = 3
    /\ ChunksOfSource(1)[3].page_number = 2
    /\ Len(ChunksOfSource(2)) >= 1

\* a source fails when its fetch fails or when parsing its PDF raises
Failing(answer) == answer.status = "error" \/ answer.empty \/ answer.pdf.raises

\* what a source contributes when it is processed on its own
AloneChunks(answer, label) ==
    ChunkPages(parse_pdf(download_pdf(answer)), 1, label, <<>>, 0)

\* C5: after process_documents every failing source has count 0, and every
\* other source has exactly the chunks it gives on its own, with its count
\* equal to their number.
C5_FailuresIsolated ==
    Processed =>
        \A d \in 1..Len(pd.documents) :
            LET label == pd.documents[d].label
            IN  IF Failing(web[d])
                THEN pd.stats[label] = 0
                ELSE /\ ChunksOfSource(label) = AloneChunks(web[d], label)
                     /\ pd.stats[label] = Len(ChunksOfSource(label))

----------------------------------------------------------------------------
(* Reading the result of embed_chunks_batch *)

Embedded == pc = "embedded"

CallsOn(p) == {k \in 1..Len(eb.calls) : eb.calls[k].chunk = p}

\* C8: when embed_chunks_batch returns, embed_text was called exactly once
\* on every chunk, in order; a chunk has an embedding iff its own call
\* returned one; the count is the number of chunks with an embedding.
C8_EveryChunkOnce ==
    Embedded =>
        /\ Len(eb.calls) = Len(chunks)
        /\ \A p \in 1..Len(chunks) :
              /\ eb.calls[p].chunk = p
              /\ chunks[p].embedding = eb.calls[p].returned
        /\ eb.success_count =
              Cardinality({p \in 1..Len(chunks) : chunks[p].embedding # NoEmbedding})

\* several batches, the last one short; a failure in the first batch is
\* followed by successes in the same batch and in a later one
C8_Witness ==
    /\ Embedded
    /\ Len(chunks) = 3
    /\ eb.batch_size = 2
    /\ chunks[1].embedding = NoEmbedding
    /\ chunks[2].embedding # NoEmbedding
    /\ chunks[3].embedding # NoEmbedding
    /\ eb.success_count = 2
    /\ eb.sleeps = 1

----------------------------------------------------------------------------
(* Reading the last call of query or retrieve *)

Blank(question) == \A i \in 1..Len(question) : IsSpace(question[i])

IndexSize == Len(rag.retriever.chunks)

Score(i) == last.retrieved[i][2]

NonIncreasing ==
    \A i \in 1..(Len(last.retrieved) - 1) : Score(i) >= Score(i + 1)

\* C4 as stated: retrieve returns at most top_k results in non-increasing
\* order of similarity, and fewer than top_k only if the index holds fewer
\* than top_k chunks.
C4_TopKOnlyShortIndex ==
    last.op = "retrieve" =>
        /\ Len(last.retrieved) <= last.top_k
        /\ NonIncreasing
        /\ Len(last.retrieved) < last.top_k => IndexSize < last.top_k

\* C4 amended: retrieve returns at most top_k results in non-increasing
\* order of similarity, and fewer than top_k only if the index holds fewer
\* than top_k chunks or the embedding of the query failed.
C4_TopKUnlessQueryFails ==
    last.op = "retrieve" =>
        /\ Len(last.retrieved) <= last.top_k
        /\ NonIncreasing
        /\ Len(last.retrieved) < last.top_k =>
              \/ IndexSize < last.top_k
              \/ last.query_embedding = NoEmbedding

\* three chunks in the index, top_k = 2, two results of different scores
C4_Witness ==
    /\ last.op = "retrieve"
    /\ IndexSize = 3
    /\ last.top_k = 2
    /\ Len(last.retrieved) = 2
    /\ Score(1) > Score(2)

\* C6 as stated: a blank question gets the prompt-to-retry message and
\* invokes neither the retrieval nor the language model, in every state.
C6_BlankAlwaysRetry ==
    (last.op = "query" /\ Blank(last.question)) =>
        /\ last.answer = PleaseEnter
        /\ last.invoked = {}

\* C6 amended: a blank question invokes neither the retrieval nor the
\* language model; it gets the prompt-to-retry message once initialize has
\* built the retriever and the "not initialized" error before that.
C6_BlankRetryOnceReady ==
    (last.op = "query" /\ Blank(last.question)) =>
        /\ last.answer = IF last.ready THEN PleaseEnter ELSE NotInitialized
        /\ last.invoked = {}

\* a whitespace-only question put to a system with a non-empty index
C6_Witness ==
    /\ last.op = "query"
    /\ last.question = <<sp>>
    /\ last.ready
    /\ IndexSize > 0
    /\ last.answer = PleaseEnter

NoChunkEmbedded ==
    \A p \in 1..Len(chunks) : chunks[p].embedding = NoEmbedding

\* C7 as stated: with no chunk embedded, retrieve returns the empty
\* sequence and every query gets the "could not retrieve context" answer,
\* without a call of the language model.
C7_EmptyIndexEveryQuery ==
    (last.ready /\ NoChunkEmbedded) =>
        /\ last.retrieved = <<>>
        /\ "llm" \notin last.invoked
        /\ last.op = "query" => last.answer = NoContext

\* C7 amended: with no chunk embedded, retrieve returns the empty sequence
\* and every query with a non-blank question gets the "could not retrieve
\* context" answer (a blank one gets the prompt to retry), without a call of
\* the language model.
C7_EmptyIndexNonBlankQuery ==
    (last.ready /\ NoChunkEmbedded) =>
        /\ last.retrieved = <<>>
        /\ "llm" \notin last.invoked
        /\ last.op = "query" =>
              last.answer = IF Blank(last.question) THEN PleaseEnter ELSE NoContext

\* chunks were ingested, none was embedded, and a question was asked
C7_Witness ==
    /\ last.op = "query"
    /\ last.ready
    /\ Len(chunks) >= 2
    /\ NoChunkEmbedded
    /\ ~Blank(last.question)
    /\ last.answer = NoContext

\* the index holds exactly the positions of the embedded chunks, ascending
IndexIsEmbeddedChunks ==
    LET index == rag.retriever.chunks
    IN  /\ \A k \in 1..Len(index) : index[k] \in 1..Len(chunks)
        /\ \A k \in 1..Len(index) : chunks[index[k]].embedding # NoEmbedding
        /\ \A k \in 1..(Len(index) - 1) : index[k] < index[k + 1]
        /\ \A p \in 1..Len(chunks) :
              chunks[p].embedding # NoEmbedding =>
                  \E k \in 1..Len(index) : index[k] = p
        /\ \A k \in 1..Len(index) :
              rag.retriever.embeddings[k] = chunks[index[k]].embedding

ReturnedAreEmbedded ==
    \A i \in 1..Len(last.retrieved) :
        /\ \E k \in 1..IndexSize : rag.retriever.chunks[k] = last.retrieved[i][1]
        /\ chunks[last.retrieved[i][1]].embedding # NoEmbedding

\* C9: once built, the index holds exactly the chunks that have an
\* embedding, in their order, it never changes, and every chunk a call
\* returns is in it and has an embedding.
C9_IndexFixed ==
    /\ [](rag.retriever.built => IndexIsEmbeddedChunks /\ ReturnedAreEmbedded)
    /\ [][rag.retriever.built =>
             /\ rag'.retriever = rag.retriever
             /\ chunks' = chunks]_vars

\* the second of three chunks has no embedding; a call returned the others
C9_Witness ==
    /\ rag.retriever.built
    /\ Len(chunks) = 3
    /\ chunks[2].embedding = NoEmbedding
    /\ rag.retriever.chunks = <<1, 3>>
    /\ last.op = "retrieve"
    /\ Len(last.retrieved) = 2

\* the similarity of the chunk at place k of the index with the last query
IndexScore(k) ==
    Unit * Unit - cosine(last.query_embedding, rag.retriever.embeddings[k])

PlaceInIndex(p) == CHOOSE k \in 1..IndexSize : rag.retriever.chunks[k] = p

Places == [i \in 1..Len(last.retrieved) |-> PlaceInIndex(last.retrieved[i][1])]

\* C10: results of equal similarity come in index order, and a chunk left
\* out by the cut comes later in the index than every returned chunk of the
\* same similarity.
C10_StableTies ==
    (last.op = "retrieve" /\ last.retrieved # <<>>) =>
        /\ \A i, j \in 1..Len(last.retrieved) :
              (i < j /\ Score(i) = Score(j)) => Places[i] < Places[j]
        /\ \A k \in 1..IndexSize :
              (\A i \in 1..Len(last.retrieved) : Places[i] # k) =>
                  \A i \in 1..Len(last.retrieved) :
                      IndexScore(k) = Score(i) => Places[i] < k

\* three chunks of equal similarity and top_k = 2: the first two come back
C10_Witness ==
    /\ last.op = "retrieve"
    /\ IndexSize = 3
    /\ last.top_k = 2
    /\ Len(last.retrieved) = 2
    /\ Score(1) = Score(2)
    /\ IndexScore(3) = Score(1)
    /\ Places = <<1, 2>>

----------------------------------------------------------------------------
(* Reading the windows chunk_text took *)

Stride == CHUNK_SIZE_CHARS - OVERLAP_CHARS

\* the end of window k in the text: start + W, or the end of the text
WindowEnd(k) ==
    IF ct.windows[k].start + CHUNK_SIZE_CHARS < Len(ct.text)
    THEN ct.windows[k].start + CHUNK_SIZE_CHARS
    ELSE Len(ct.text)

CutShort(k) == ct.windows[k].start + CHUNK_SIZE_CHARS > Len(ct.text)

\* the characters of the text that windows j < k have in common
Shared(j, k) ==
    IF WindowEnd(j) > ct.windows[k].start
    THEN WindowEnd(j) - ct.windows[k].start
    ELSE 0

EmittedWindows == {k \in 1..Len(ct.windows) : ct.windows[k].emitted}

\* windows j < k gave two consecutive chunks: no window between them did
ConsecutiveEmitted(j, k) ==
    /\ j \in EmittedWindows /\ k \in EmittedWindows /\ j < k
    /\ \A m \in EmittedWindows : ~(j < m /\ m < k)

\* the windows start at 0, W-O, 2(W-O), ..., and stop at the end of the text
StartsAtStrides ==
    /\ Len(ct.windows) >= 1
    /\ \A k \in 1..Len(ct.windows) :
          /\ ct.windows[k].start = (k - 1) * Stride
          /\ ct.windows[k].start < Len(ct.text)
    /\ Len(ct.windows) * Stride >= Len(ct.text)

\* the chunks are the trimmed texts of the emitted windows, in order
ChunksAreEmittedWindows ==
    /\ Len(ct.chunks) = Cardinality(EmittedWindows)
    /\ \A k \in EmittedWindows :
          LET n == Cardinality({m \in EmittedWindows : m <= k})
          IN  ct.chunks[n].text =
                  Strip(SubSeq(ct.text, ct.windows[k].start + 1, WindowEnd(k)))

LongText ==
    /\ Returned
    /\ Len(ct.text) > CHUNK_SIZE_CHARS
    /\ OVERLAP_CHARS < CHUNK_SIZE_CHARS

\* C11 as stated: for a text longer than W (0 <= O < W) the windows start at
\* 0, W-O, 2(W-O), ... below the text length, and every two consecutive
\* emitted chunks come from windows that share exactly O characters, except
\* where the later one is the last window and is cut short by the end of the
\* text.
C11_EmittedShareOverlap ==
    LongText =>
        /\ StartsAtStrides
        /\ \A j, k \in 1..Len(ct.windows) :
              (ConsecutiveEmitted(j, k) /\ ~(k = Len(ct.windows) /\ CutShort(k)))
                  => Shared(j, k) = OVERLAP_CHARS

\* C11 amended: for a text longer than W (0 <= O < W) the windows start at
\* 0, W-O, 2(W-O), ... below the text length, the chunks are the trimmed
\* non-blank windows in order, and every two consecutive windows share
\* exactly O characters when the earlier one is not cut short by the end of
\* the text, and the rest of the text from the later start when it is.
C11_WindowsShareOverlap ==
    LongText =>
        /\ StartsAtStrides
        /\ ChunksAreEmittedWindows
        /\ \A k \in 1..(Len(ct.windows) - 1) :
              Shared(k, k + 1) = IF CutShort(k)
                                 THEN Len(ct.text) - ct.windows[k + 1].start
                                 ELSE OVERLAP_CHARS

\* four windows over a text of four characters with W = 2 and O = 1, all of
\* them emitted, the last one cut short
C11_Witness ==
    /\ LongText
    /\ CHUNK_SIZE_CHARS = 2 /\ OVERLAP_CHARS = 1
    /\ Len(ct.text) = 4
    /\ Len(ct.windows) = 4
    /\ Len(ct.chunks) = 4
    /\ CutShort(4) /\ ~CutShort(3)
    /\ Shared(1, 2) = 1

----------------------------------------------------------------------------
(* Construction and initialize come before serving *)

MissingCredential == \E name \in EnvNames : Falsy(environ[name])

\* what holds in every state of the application
StartupOrder ==
    \* a missing credential: the constructor fails, there is no object
    /\ (pc # "start" /\ MissingCredential)
          => (pc = "halted" /\ rag = NoRag /\ last = NoCall)
    /\ (pc # "start" /\ ~MissingCredential) => rag.constructed
    \* initialize is over with no chunk at all: it failed
    /\ (pc = "idle" /\ rag.initialize # "no" /\ Len(chunks) = 0)
          => rag.initialize = "failed"
    \* a failed initialize made no embedding call and built no index
    /\ rag.initialize = "failed"
          => (Len(chunks) = 0 /\ eb = NoFrame /\ ~rag.retriever.built)
    \* the index exists only after a successful initialize
    /\ rag.retriever.built <=> rag.initialize = "ok"
    \* a query that reached retrieval or the model: initialize had succeeded
    /\ (last.op = "query" /\ last.invoked # {}) => rag.initialize = "ok"

\* what holds of every step of the application
ServedOnlyWhenReady ==
    \* a query answered while initialize has not succeeded
    /\ (last' # last /\ last'.op = "query" /\ rag.initialize # "ok")
          => /\ last'.answer = NotInitialized
             /\ last'.retrieved = <<>>
             /\ last'.invoked = {}
    \* the embedding of the chunks starts only with chunks to embed
    /\ (eb = NoFrame /\ eb' # NoFrame) => Len(chunks) > 0

\* C12: query reaches retrieval or the language model only after initialize
\* has finished successfully, and before that, or after a failed initialize,
\* it returns the "not initialized" error; a missing credential makes the
\* constructor fail; ingestion that yields no chunk at all makes initialize
\* fail before any embedding call, with no retrieval index built.
C12_InitializeBeforeServing == [](StartupOrder) /\ [][ServedOnlyWhenReady]_vars

\* initialize has failed for lack of chunks and a non-blank question was
\* answered with the "not initialized" error
C12_Witness ==
    /\ rag.constructed
    /\ rag.initialize = "failed"
    /\ Len(chunks) = 0
    /\ eb = NoFrame
    /\ last.op = "query"
    /\ last.question = <<a>>
    /\ last.answer = NotInitialized

====
